---- MODULE Spec2Model ----
(***************************************************************************)
(* Model of src/ap.py: the two document renderers create_docx and          *)
(* create_pdf, and the form-submission path of main with generate_resume.  *)
(* Python strings are sequences of one-character strings.                  *)
(***************************************************************************)
EXTENDS Integers, Sequences, FiniteSets, TLC

(* ------------------------------ bounds --------------------------------- *)
\* longest resume text enumerated character by character
MaxTextLen == 4
\* longest streamed resume text, in lines
MaxLines == 48

(* ------------------------- program constants --------------------------- *)
PageHeight == 792
Margin == 40
TitleAdvance == 30
HeadingStep == 20
BulletStep_AsHeading == HeadingStep
BulletStep == 15
ParagraphStep == 15
LeftX == 40
BulletX == 50
JobSlots == 4
EduSlots == 2

(* ------------------------------ inputs --------------------------------- *)
NL == "\n"
Chars == {" ", "#", "-", "a", NL}
Names == {<<"J", " ", "D">>}
HeadingMarker == <<"#", "#", "#">>
BulletMarker == <<"-">>
\* the three characters the source file holds for the bullet, and a space
BulletGlyph == <<"U+00E2", "U+20AC", "U+00A2", " ">>
TitleSuffix == <<"'", "s", " ", "R", "e", "s", "u", "m", "e">>
SampleLines == { <<"#", "#", "#", " ", "a">>, <<"-", " ", "a">>, <<"a">>, <<>> }

RECURSIVE SeqsUpTo(_, _)
SeqsUpTo(S, n) ==
    IF n = 0 THEN {<<>>}
    ELSE LET shorter == SeqsUpTo(S, n - 1)
         IN  shorter \cup {Append(s, c) : s \in shorter, c \in S}

Texts == SeqsUpTo(Chars, MaxTextLen)

(* --------------------------- str methods ------------------------------- *)
IsSpace(c) == c \in {" ", NL}

startswith(s, p) == Len(s) >= Len(p) /\ SubSeq(s, 1, Len(p)) = p

RECURSIVE lstrip(_)
lstrip(s) == IF s # <<>> /\ IsSpace(Head(s)) THEN lstrip(Tail(s)) ELSE s

RECURSIVE rstrip(_)
rstrip(s) ==
    IF s # <<>> /\ IsSpace(s[Len(s)]) THEN rstrip(SubSeq(s, 1, Len(s) - 1)) ELSE s

strip(s) == rstrip(lstrip(s))

\* str.replace(old, new) for a non-empty old: leftmost non-overlapping matches
RECURSIVE replace(_, _, _)
replace(s, old, new) ==
    IF s = <<>> THEN <<>>
    ELSE IF startswith(s, old)
         THEN new \o replace(SubSeq(s, Len(old) + 1, Len(s)), old, new)
         ELSE <<Head(s)>> \o replace(Tail(s), old, new)

\* str.split(sep) for a one-character sep: always at least one piece
RECURSIVE split(_, _)
split(s, sep) ==
    IF s = <<>> THEN << <<>> >>
    ELSE LET rest == split(Tail(s), sep)
         IN  IF Head(s) = sep THEN << <<>> >> \o rest
             ELSE << <<Head(s)>> \o Head(rest) >> \o Tail(rest)

(* ------------------------ per-line formatting -------------------------- *)
\* the branch taken by the if / elif / else of both renderers
LineKind(line) ==
    IF startswith(line, HeadingMarker) THEN "Heading"
    ELSE IF startswith(line, BulletMarker) THEN "Bullet"
    ELSE "Paragraph"

\* the element create_docx appends for one line
DocxElement(line) ==
    IF startswith(line, HeadingMarker)
    THEN [style |-> "Heading 1", text |-> strip(replace(line, HeadingMarker, <<>>))]
    ELSE IF startswith(line, BulletMarker)
    THEN [style |-> "ListBullet", text |-> strip(line)]
    ELSE [style |-> "Normal", text |-> strip(line)]

\* the text create_pdf draws for a bullet line after the glyph
PdfBulletContent(line) == strip(replace(line, BulletMarker, <<>>))

\* the drawString create_pdf issues for one line, and the cursor step
PdfDraw(line) ==
    IF startswith(line, HeadingMarker)
    THEN [font |-> "Helvetica-Bold", size |-> 14, x |-> LeftX, step |-> HeadingStep,
          content |-> strip(replace(line, HeadingMarker, <<>>)),
          text |-> strip(replace(line, HeadingMarker, <<>>))]
    ELSE IF startswith(line, BulletMarker)
    THEN [font |-> "Helvetica", size |-> 12, x |-> BulletX, step |-> BulletStep,
          content |-> PdfBulletContent(line),
          text |-> BulletGlyph \o PdfBulletContent(line)]
    ELSE [font |-> "Helvetica", size |-> 12, x |-> LeftX, step |-> ParagraphStep,
          content |-> strip(line), text |-> strip(line)]

DocxKind(el) ==
    CASE el.style = "Heading 1" -> "Heading"
      [] el.style = "ListBullet" -> "Bullet"
      [] OTHER -> "Paragraph"

PdfKind(d) ==
    CASE d.font = "Helvetica-Bold" -> "Heading"
      [] d.x = BulletX -> "Bullet"
      [] OTHER -> "Paragraph"

\* y = height - 40 at the top of a page
NewPageY == PageHeight - 40

\* if y < 40
NeedsPageBreak_Never(yy) == yy < 0
NeedsPageBreak(yy) == yy < Margin

(* ------------------------------- state --------------------------------- *)
VARIABLES
    name,          \* the name argument / the form's Full Name
    resume_text,   \* the text argument when enumerated character by character
    lines,         \* resume_text.split("\n"); <<>> when the text is streamed
    streamed,      \* TRUE: the lines of a long text are drawn on demand
    numLines,      \* len(resume_text.split("\n"))
    calls,         \* the renderers called on the text
    docPc, docI, docCount, docFirst, lastDoc, docBytes,
    pdfPc, pdfI, y, font, pageLines, pageCounts, breaks, titleDraw, lastPdf,
    pdfBytes, onlyBullets,
    mpc, skills, job_type, download_format, jobs, educations, slot,
    resume, errors, propagated, raised, rendererRun, downloadOffered

docVars == <<docPc, docI, docCount, docFirst, lastDoc, docBytes>>
pdfVars == <<pdfPc, pdfI, y, font, pageLines, pageCounts, breaks, titleDraw,
             lastPdf, pdfBytes, onlyBullets>>
inputVars == <<resume_text, lines, streamed, numLines, calls>>
mainVars == <<mpc, skills, job_type, download_format, jobs, educations, slot,
              resume, errors, propagated, raised, rendererRun, downloadOffered>>
vars == <<name, inputVars, docVars, pdfVars, mainVars>>

PyNone == [type |-> "NoneType"]
PyStr(s) == [type |-> "str", val |-> s]
\* truth value of a str or None
Truthy(v) == v.type = "str" /\ v.val # <<>>
NoElement == [style |-> "none", text |-> <<>>]
NoDraw == [font |-> "none", size |-> 0, x |-> 0, y |-> 0, page |-> 0,
           content |-> <<>>, text |-> <<>>]

RenderIdle ==
    /\ docPc = "idle" /\ docI = 0 /\ docCount = 0
    /\ docFirst = NoElement
    /\ lastDoc = [idx |-> 0, line |-> <<>>, el |-> NoElement]
    /\ docBytes = PyNone
    /\ pdfPc = "idle" /\ pdfI = 0 /\ y = 0 /\ font = "none"
    /\ pageLines = 0 /\ pageCounts = <<>> /\ breaks = 0
    /\ titleDraw = NoDraw
    /\ lastPdf = [idx |-> 0, line |-> <<>>, broke |-> FALSE, d |-> NoDraw]
    /\ pdfBytes = PyNone
    /\ onlyBullets = TRUE

MainIdle ==
    /\ mpc = "idle" /\ skills = <<>> /\ job_type = "" /\ download_format = ""
    /\ jobs = <<>> /\ educations = <<>> /\ slot = 0
    /\ resume = PyNone /\ errors = <<>> /\ propagated = FALSE /\ raised = "none"
    /\ rendererRun = {} /\ downloadOffered = FALSE

\* both renderers are called on one short text
InitText ==
    /\ name \in Names
    /\ resume_text \in Texts
    /\ lines = split(resume_text, NL)
    /\ streamed = FALSE
    /\ numLines = Len(split(resume_text, NL))
    /\ calls = {"create_docx", "create_pdf"}
    /\ RenderIdle /\ MainIdle

\* one renderer is called on a long text whose lines are drawn on demand
InitPages ==
    /\ name \in Names
    /\ resume_text = <<>>
    /\ lines = <<>>
    /\ streamed = TRUE
    /\ numLines \in 1..MaxLines
    /\ calls \in {{"create_docx"}, {"create_pdf"}}
    /\ RenderIdle /\ MainIdle

Init == InitText \/ InitPages

\* the value of the loop variable `line` in iteration i
CurrentLines(i) == IF streamed THEN SampleLines ELSE {lines[i]}

(* ----------------------------- create_docx ----------------------------- *)
DocxStart ==
    /\ "create_docx" \in calls /\ docPc = "idle"
    /\ docFirst' = [style |-> "Title", text |-> name \o TitleSuffix]
    /\ docCount' = 1
    /\ docPc' = "loop"
    /\ UNCHANGED <<docI, lastDoc, docBytes, name, inputVars, pdfVars, mainVars>>

DocxLine_SkipEmpty ==
    /\ docPc = "loop" /\ docI < numLines
    /\ \E line \in CurrentLines(docI + 1) :
         IF line = <<>>
         THEN UNCHANGED <<lastDoc, docCount>>
         ELSE /\ lastDoc' = [idx |-> docI + 1, line |-> line, el |-> DocxElement(line)]
              /\ docCount' = docCount + 1
    /\ docI' = docI + 1
    /\ UNCHANGED <<docPc, docFirst, docBytes, name, inputVars, pdfVars, mainVars>>

DocxLine ==
    /\ docPc = "loop" /\ docI < numLines
    /\ \E line \in CurrentLines(docI + 1) :
         lastDoc' = [idx |-> docI + 1, line |-> line, el |-> DocxElement(line)]
    /\ docCount' = docCount + 1
    /\ docI' = docI + 1
    /\ UNCHANGED <<docPc, docFirst, docBytes, name, inputVars, pdfVars, mainVars>>

DocxSave ==
    /\ docPc = "loop" /\ docI = numLines
    /\ docBytes' = [elements |-> docCount]
    /\ docPc' = "done"
    /\ UNCHANGED <<docI, docCount, docFirst, lastDoc, name, inputVars, pdfVars, mainVars>>

(* ----------------------------- create_pdf ------------------------------ *)
PdfStart ==
    /\ "create_pdf" \in calls /\ pdfPc = "idle"
    /\ titleDraw' = [font |-> "Helvetica-Bold", size |-> 16, x |-> LeftX,
                     y |-> PageHeight - 40, page |-> 1,
                     content |-> name \o TitleSuffix, text |-> name \o TitleSuffix]
    /\ y' = (PageHeight - 40) - TitleAdvance
    /\ font' = "Helvetica"
    /\ pdfPc' = "loop"
    /\ UNCHANGED <<pdfI, pageLines, pageCounts, breaks, lastPdf, pdfBytes,
                   onlyBullets, name, inputVars, docVars, mainVars>>

\* the check placed after the draw instead of before it
PdfLine_BreakAfter ==
    /\ pdfPc = "loop" /\ pdfI < numLines
    /\ \E line \in CurrentLines(pdfI + 1) :
        LET d == PdfDraw(line)
            brk == NeedsPageBreak(y - d.step)
        IN  /\ pageCounts' = IF brk THEN Append(pageCounts, pageLines + 1) ELSE pageCounts
            /\ breaks' = IF brk THEN breaks + 1 ELSE breaks
            /\ pageLines' = IF brk THEN 0 ELSE pageLines + 1
            /\ font' = d.font
            /\ lastPdf' = [idx |-> pdfI + 1, line |-> line, broke |-> brk,
                           d |-> [font |-> d.font, size |-> d.size, x |-> d.x,
                                  y |-> y, page |-> Len(pageCounts) + 1,
                                  content |-> d.content, text |-> d.text]]
            /\ y' = IF brk THEN NewPageY ELSE y - d.step
            /\ onlyBullets' = (onlyBullets /\ LineKind(line) = "Bullet")
    /\ pdfI' = pdfI + 1
    /\ UNCHANGED <<pdfPc, titleDraw, pdfBytes, name, inputVars, docVars, mainVars>>

\* one iteration of the loop: the page-break check, then the draw
PdfLine ==
    /\ pdfPc = "loop" /\ pdfI < numLines
    /\ \E line \in CurrentLines(pdfI + 1) :
        LET brk == NeedsPageBreak(y)
            y0 == IF brk THEN NewPageY ELSE y
            d == PdfDraw(line)
        IN  /\ pageCounts' = IF brk THEN Append(pageCounts, pageLines) ELSE pageCounts
            /\ breaks' = IF brk THEN breaks + 1 ELSE breaks
            /\ pageLines' = (IF brk THEN 0 ELSE pageLines) + 1
            /\ font' = d.font
            /\ lastPdf' = [idx |-> pdfI + 1, line |-> line, broke |-> brk,
                           d |-> [font |-> d.font, size |-> d.size, x |-> d.x,
                                  y |-> y0,
                                  page |-> Len(pageCounts) + 1 + (IF brk THEN 1 ELSE 0),
                                  content |-> d.content, text |-> d.text]]
            /\ y' = y0 - d.step
            /\ onlyBullets' = (onlyBullets /\ LineKind(line) = "Bullet")
    /\ pdfI' = pdfI + 1
    /\ UNCHANGED <<pdfPc, titleDraw, pdfBytes, name, inputVars, docVars, mainVars>>

\* c.showPage(); c.save(); return buffer.getvalue()
PdfSave_NoShowPage ==
    /\ pdfPc = "loop" /\ pdfI = numLines
    /\ pdfBytes' = [pages |-> Len(pageCounts)]
    /\ pdfPc' = "done"
    /\ UNCHANGED <<pdfI, y, font, pageLines, pageCounts, breaks, titleDraw, lastPdf,
                   onlyBullets, name, inputVars, docVars, mainVars>>

PdfSave ==
    /\ pdfPc = "loop" /\ pdfI = numLines
    /\ pageCounts' = Append(pageCounts, pageLines)
    /\ pageLines' = 0
    /\ pdfBytes' = [pages |-> Len(pageCounts) + 1]
    /\ pdfPc' = "done"
    /\ UNCHANGED <<pdfI, y, font, breaks, titleDraw, lastPdf, onlyBullets,
                   name, inputVars, docVars, mainVars>>

Next == DocxStart \/ DocxLine \/ DocxSave \/ PdfStart \/ PdfLine \/ PdfSave

Spec == Init /\ [][Next]_vars

\* a called renderer runs to its return: straight-line, single-threaded code
FairSpec == Spec /\ WF_vars(Next)

(* -------------------- main: one run of the form script ----------------- *)
FieldTexts == {<<>>, <<"a">>}
JobFields == {"company", "location", "date_joined", "date_left", "position",
              "problems_solved", "salary"}
EduFields == {"subject", "institution", "date_joined", "completion_date", "grade"}
JobTypes == {"Software Engineer", "Other"}
Formats == {"PDF", "DOCX"}
\* what model.generate_content(prompt) / response.text can do
ModelOutcomes == { [raises |-> TRUE, text |-> <<>>],
                   [raises |-> FALSE, text |-> <<>>],
                   [raises |-> FALSE, text |-> <<"#", "#", "#", "a", NL, "-", "a">>] }

\* format(value, ","): the "," option is valid for numbers only
FormatWithComma(v) ==
    IF v.type \in {"int", "float"} THEN "ok" ELSE "ValueError"

\* the body of the try block: the first exception raised, or the text returned
TryBody(jobList, outcome) ==
    IF \E k \in 1..Len(jobList) : FormatWithComma(jobList[k].salary) # "ok"
    THEN [exc |-> "ValueError", value |-> PyNone]
    ELSE IF outcome.raises
    THEN [exc |-> "Exception", value |-> PyNone]
    ELSE [exc |-> "none", value |-> PyStr(outcome.text)]

\* except Exception as e: st.error(...); return None
ExceptHandler_OnlyApi(exc) ==
    IF exc = "Exception"
    THEN [value |-> PyNone, errors |-> <<"Error generating resume">>, propagated |-> FALSE]
    ELSE [value |-> PyNone, errors |-> <<>>, propagated |-> TRUE]
ExceptHandler(exc) ==
    [value |-> PyNone, errors |-> <<"Error generating resume">>, propagated |-> FALSE]

generate_resume(jobList, outcome) ==
    LET r == TryBody(jobList, outcome)
    IN  IF r.exc # "none"
        THEN [exc |-> r.exc] @@ ExceptHandler(r.exc)
        ELSE [exc |-> "none", value |-> r.value, errors |-> <<>>, propagated |-> FALSE]

InitMain ==
    /\ name = <<>>
    /\ resume_text = <<>> /\ lines = <<>> /\ streamed = FALSE /\ numLines = 0
    /\ calls = {}
    /\ RenderIdle /\ MainIdle

\* the sidebar select box and the text inputs and select boxes of the form
FillForm ==
    /\ mpc = "idle"
    /\ download_format' \in Formats
    /\ name' \in {<<>>} \cup Names
    /\ skills' \in FieldTexts
    /\ job_type' \in JobTypes
    /\ slot' = 0
    /\ mpc' = "jobs"
    /\ UNCHANGED <<jobs, educations, resume, errors, propagated, raised,
                   rendererRun, downloadOffered, inputVars, docVars, pdfVars>>

\* one iteration of for i in range(4): a job is kept when every field is filled
JobSlot ==
    /\ mpc = "jobs" /\ slot < JobSlots
    /\ \E f \in [JobFields -> FieldTexts] :
         jobs' = IF \A k \in JobFields : f[k] # <<>>
                 THEN Append(jobs, [f EXCEPT !["salary"] = PyStr(f["salary"])])
                 ELSE jobs
    /\ slot' = IF slot + 1 = JobSlots THEN 0 ELSE slot + 1
    /\ mpc' = IF slot + 1 = JobSlots THEN "edu" ELSE "jobs"
    /\ UNCHANGED <<name, skills, job_type, download_format, educations, resume,
                   errors, propagated, raised, rendererRun, downloadOffered,
                   inputVars, docVars, pdfVars>>

\* one iteration of for i in range(2)
EduSlot ==
    /\ mpc = "edu" /\ slot < EduSlots
    /\ \E f \in [EduFields -> FieldTexts] :
         educations' = IF \A k \in EduFields : f[k] # <<>>
                       THEN Append(educations, f)
                       ELSE educations
    /\ slot' = IF slot + 1 = EduSlots THEN 0 ELSE slot + 1
    /\ mpc' = IF slot + 1 = EduSlots THEN "submit" ELSE "edu"
    /\ UNCHANGED <<name, skills, job_type, download_format, jobs, resume,
                   errors, propagated, raised, rendererRun, downloadOffered,
                   inputVars, docVars, pdfVars>>

\* the rest of the script: if submit_button: ... else the run just ends
HandleSubmit ==
    /\ mpc = "submit"
    /\ \E submit_button \in BOOLEAN, outcome \in ModelOutcomes :
        IF ~submit_button
        THEN UNCHANGED <<resume, errors, propagated, raised, rendererRun, downloadOffered>>
        ELSE IF name # <<>> /\ skills # <<>> /\ job_type # "" /\ jobs # <<>>
                /\ educations # <<>>
        THEN LET g == generate_resume(jobs, outcome)
             IN  /\ raised' = g.exc
                 /\ propagated' = g.propagated
                 /\ errors' = g.errors
                 /\ resume' = g.value
                 /\ IF ~g.propagated /\ Truthy(g.value)
                    THEN /\ rendererRun' = IF download_format = "PDF"
                                           THEN {"create_pdf"} ELSE {"create_docx"}
                         /\ downloadOffered' = TRUE
                    ELSE UNCHANGED <<rendererRun, downloadOffered>>
        ELSE /\ errors' = <<"Please fill in all required fields">>
             /\ UNCHANGED <<resume, propagated, raised, rendererRun, downloadOffered>>
    /\ mpc' = "done"
    /\ UNCHANGED <<name, skills, job_type, download_format, jobs, educations, slot,
                   inputVars, docVars, pdfVars>>

NextMain == FillForm \/ JobSlot \/ EduSlot \/ HandleSubmit

SpecMain == InitMain /\ [][NextMain]_vars

(* ------------------------------ properties ----------------------------- *)
RECURSIVE SumSeq(_)
SumSeq(q) == IF q = <<>> THEN 0 ELSE Head(q) + SumSeq(Tail(q))

\* C1: every line create_pdf draws is drawn at y >= 40; a line that finds the
\* cursor below the bottom margin is drawn only after showPage and the reset
\* of y to the top of a new page.
C1_DrawNotBelowMargin ==
    pdfI >= 1 =>
        /\ lastPdf.d.y >= 40
        /\ lastPdf.broke => lastPdf.d.y = PageHeight - 40 /\ lastPdf.d.page >= 2

C1_Witness ==
    /\ pdfI >= 1 /\ lastPdf.broke
    /\ lastPdf.d.page = 2 /\ lastPdf.d.y >= 40

\* C3: in both renderers the kind of a line is the kind of its trimmed form:
\* Heading when the trimmed line starts with ###, else Bullet when it starts
\* with -, else Paragraph.
C3_KindOfTrimmedLine ==
    /\ docI >= 1 => DocxKind(lastDoc.el) =
          (LET t == strip(lastDoc.line)
           IN  IF startswith(t, <<"#", "#", "#">>) THEN "Heading"
               ELSE IF startswith(t, <<"-">>) THEN "Bullet" ELSE "Paragraph")
    /\ pdfI >= 1 => PdfKind(lastPdf.d) =
          (LET t == strip(lastPdf.line)
           IN  IF startswith(t, <<"#", "#", "#">>) THEN "Heading"
               ELSE IF startswith(t, <<"-">>) THEN "Bullet" ELSE "Paragraph")

\* C4: the content emitted for a Bullet line is the line without its leading
\* marker and the one separator after it, the rest of the text unchanged, in
\* the list item of create_docx and after the glyph in create_pdf.
C4_BulletContentStripped ==
    /\ (docI >= 1 /\ DocxKind(lastDoc.el) = "Bullet") =>
          lastDoc.el.text =
             (LET r == Tail(lastDoc.line)
              IN  IF r # <<>> /\ Head(r) = " " THEN Tail(r) ELSE r)
    /\ (pdfI >= 1 /\ PdfKind(lastPdf.d) = "Bullet") =>
          /\ lastPdf.d.content =
                (LET r == Tail(lastPdf.line)
                 IN  IF r # <<>> /\ Head(r) = " " THEN Tail(r) ELSE r)
          /\ lastPdf.d.text = BulletGlyph \o lastPdf.d.content

\* C5: for the same text and the same line index, create_docx and create_pdf
\* render the same kind and the same content.
C5_RenderersAgree ==
    (docI >= 1 /\ docI = pdfI) =>
        /\ lastDoc.line = lastPdf.line
        /\ DocxKind(lastDoc.el) = PdfKind(lastPdf.d)
        /\ lastDoc.el.text = lastPdf.d.content

C7_BulletPageCapacity ==
    /\ (pdfI >= 1 /\ pdfI <= 46 /\ onlyBullets) =>
          /\ lastPdf.d.page = 1
          /\ lastPdf.d.y = 722 - 15 * (pdfI - 1)
          /\ lastPdf.d.y >= 47
    /\ (pdfPc = "done" /\ onlyBullets) =>
          /\ numLines <= 46 => pdfBytes.pages = 1
          /\ numLines >= 47 => pdfBytes.pages >= 2 /\ pageCounts[1] = 46

C7_Witness ==
    /\ pdfPc = "done" /\ onlyBullets /\ numLines = 47
    /\ pdfBytes.pages = 2 /\ pageCounts = <<46, 1>>

\* C8: every called renderer returns; create_pdf finalizes the current page
\* once after the last line, so its page count is 1 plus the page breaks of
\* the loop; the empty text is one empty Paragraph line, both renderers
\* complete on it, and its pdf has exactly one page.
C8_TerminatesWithFinalPage ==
    /\ [](pdfPc = "done" =>
            /\ pdfBytes.pages = 1 + breaks
            /\ Len(pageCounts) = 1 + breaks
            /\ (numLines = 1 /\ lastPdf.line = <<>>) => pdfBytes.pages = 1)
    /\ []((~streamed /\ resume_text = <<>>) =>
            /\ numLines = 1
            /\ pdfI = 1 => (lastPdf.line = <<>> /\ PdfKind(lastPdf.d) = "Paragraph")
            /\ docI = 1 => lastDoc.el = [style |-> "Normal", text |-> <<>>])
    /\ <>(/\ "create_pdf" \in calls => pdfPc = "done"
          /\ "create_docx" \in calls => docPc = "done")

C8_Witness ==
    /\ pdfPc = "done" /\ breaks = 1 /\ pdfBytes.pages = 2
    /\ pageLines = 0

\* C9: the page-break check comes before the draw of each line and never after
\* it: a line that finds y < 40 finalizes the page, resets y to height - 40 and
\* is drawn there; every line is drawn once, in input order, with at most one
\* page break, and every page after the first holds at least one line.
C9_BreakBeforeLine ==
    /\ [](pdfI >= 1 =>
            /\ lastPdf.idx = pdfI
            /\ ~streamed => lastPdf.line = lines[pdfI]
            /\ SumSeq(pageCounts) + pageLines = pdfI
            /\ lastPdf.broke =>
                 /\ lastPdf.d.y = PageHeight - 40
                 /\ lastPdf.d.page = breaks + 1
                 /\ y = lastPdf.d.y - PdfDraw(lastPdf.line).step
            /\ \A k \in 2..Len(pageCounts) : pageCounts[k] >= 1
            /\ pdfPc = "done" => SumSeq(pageCounts) = numLines)
    /\ [][pdfI' = pdfI + 1 =>
            /\ breaks' = breaks + (IF y < 40 THEN 1 ELSE 0)
            /\ lastPdf'.broke = (y < 40)
            /\ pageLines' >= 1]_vars
    /\ [][pdfPc' = "done" /\ pdfPc # "done" => breaks' = breaks /\ pageLines >= 1]_vars

C9_Witness ==
    /\ pdfPc = "done" /\ breaks = 1
    /\ lastPdf.idx = numLines /\ lastPdf.d.page = 2
    /\ Len(pageCounts) = 2 /\ pageCounts[2] >= 2

\* C10: on a form submission no exception leaves generate_resume: a failure in
\* the try block gives an error message and None; a renderer runs and a
\* download is offered only with name, skills, job type, a complete job, a
\* complete education entry and a non-empty text, and then exactly one
\* renderer runs, create_pdf for PDF and create_docx otherwise.
C10_SubmitErrorHandling ==
    /\ ~propagated
    /\ raised # "none" => (resume = PyNone /\ errors = <<"Error generating resume">>
                           /\ rendererRun = {} /\ ~downloadOffered)
    /\ (rendererRun # {} \/ downloadOffered) =>
          /\ mpc = "done" /\ downloadOffered
          /\ name # <<>> /\ skills # <<>> /\ job_type # ""
          /\ jobs # <<>> /\ educations # <<>>
          /\ Truthy(resume)
          /\ rendererRun = (IF download_format = "PDF" THEN {"create_pdf"}
                            ELSE {"create_docx"})

C10_Witness ==
    /\ mpc = "done" /\ raised = "ValueError"
    /\ Len(jobs) >= 1 /\ Len(educations) >= 1
    /\ resume = PyNone /\ errors = <<"Error generating resume">>

====
